---- MODULE Spec2Model ----
(***************************************************************************)
(* The file-based command bus of MCPserve/commands/MCPServerCommand.py:     *)
(* the lifecycle functions start_server / stop_server, the server thread    *)
(* (server_thread_func running run_mcp_server) and the Poller thread        *)
(* (file_monitor_thread) with its per-file handling, over a model of the    *)
(* watched directories.                                                     *)
(*                                                                         *)
(* Reading of the source.  Line 644 of the file is dedented and line 452    *)
(* divides two strings; the model reads line 644 at the indentation of its  *)
(* branch and treats the set-up of run_mcp_server (lines 76-512) as a step  *)
(* that either reaches the start of the Poller (ServerSetupOk) or raises    *)
(* into the handler of lines 828-839 (ServerSetupFail).                     *)
(***************************************************************************)
EXTENDS Integers, Sequences, FiniteSets, TLC

\* Number of server threads start_server may spawn in one behaviour.
MaxThreads == 2

\* Number of command files the producer writes in one behaviour.
MaxDrops == 2

\* Number of seconds that pass in one behaviour.
MaxClock == 1

\* The count of displays of one signal file stops at this number.
MaxDisplay == 2

\* The signal files the producer writes, numbered in the order of writing.
Signals == 1..MaxDrops

Threads == 1..MaxThreads

\* comm_dirs: the add-in's mcp_comm and the workspace's mcp_comm.
WatchedDirs == <<"addon_comm", "workspace_comm">>

Dirs == {WatchedDirs[k] : k \in 1..Len(WatchedDirs)}

\* The <id> part of the names command_<id>.json the producer uses, as a
\* sequence of characters.
Names == {<<"1">>, <<"2">>}

VARIABLES
    server_running,   \* the module global server_running
    server_thread,    \* the module global server_thread (0 is None)
    hostPc,           \* where the host's thread is inside start_server / stop_server
    srv,              \* position of each server thread
    pol,              \* position and locals of each Poller thread
    fs,               \* the watched directories: file name -> content
    nThreads,         \* server threads spawned so far
    nDrops,           \* command files written so far
    nInvoke,          \* per directory and id: dispatches of a registered command
    nParse,           \* per directory and id: json.load calls on its command file
    nWrite,           \* per directory and id: writes of its response file
    skipped,          \* per directory and id: the dedup guard has skipped its file
    packages,         \* check_mcp_installed() finds mcp and uvicorn
    paths,            \* the last call of get_workspace_paths: the state of the
                      \* filesystem it met and how it ended
    clock,            \* int(time.time()): the time in whole seconds
    nDisplay,         \* per signal file: calls of create_message_box_command
    returned,         \* how the last call of start_server / stop_server returned
    afterStop         \* <<directory, id>> of the command files written since
                      \* stop_server last returned and start_server was not called

vars == <<server_running, server_thread, hostPc, srv, pol, fs,
          nThreads, nDrops, nInvoke, nParse, nWrite, skipped,
          packages, paths, clock, nDisplay, returned, afterStop>>

-----------------------------------------------------------------------------
(* File names, as sequences of tokens.                                      *)

CommandFile(name) == <<"command", "_">> \o name \o <<".", "json">>

ResponseFile(id) == <<"response", "_">> \o id \o <<".", "json">>

ProcessedFile(id) == <<"processed", "_", "command", "_">> \o id \o <<".", "json">>

\* The signal file, and the name it is archived under at time t.
MessageFile == <<"message", "_", "box", ".", "txt">>

ArchivedMessageFile(t) == <<"processed", "_", "message", "_", ToString(t), ".", "txt">>

\* file.startswith("command_") and file.endswith(".json")
IsCommandFile(file) ==
    /\ Len(file) >= 4
    /\ SubSeq(file, 1, 2) = <<"command", "_">>
    /\ SubSeq(file, Len(file) - 1, Len(file)) = <<".", "json">>

\* Positions of the separator sep in s.
SepPositions(s, sep) == {k \in 1..Len(s) : s[k] = sep}

\* s.split(sep)[0]
SplitFirst(s, sep) ==
    IF SepPositions(s, sep) = {} THEN s
    ELSE SubSeq(s, 1, (CHOOSE k \in SepPositions(s, sep) :
                          \A j \in SepPositions(s, sep) : k <= j) - 1)

\* s.split(sep)[1], for an s that holds sep
SplitSecond(s, sep) ==
    LET first == CHOOSE k \in SepPositions(s, sep) :
                     \A j \in SepPositions(s, sep) : k <= j
        rest == SubSeq(s, first + 1, Len(s))
    IN SplitFirst(rest, sep)

\* command_id = file.split("_")[1].split(".")[0]
ExtractId(file) == SplitFirst(SplitSecond(file, "_"), ".")

Ids == {ExtractId(CommandFile(n)) : n \in Names}

-----------------------------------------------------------------------------
(* Command documents and the dispatch chain.                                *)

\* The command names the if/elif chain of the Poller knows.
Registry == {"list_resources", "list_tools", "list_prompts", "message_box",
             "create_new_sketch", "create_parameter", "read_resource", "get_prompt"}

\* Bodies of command files: json is "invalid" (not JSON), "list" (JSON, not a
\* mapping) or "mapping"; params is "none" (absent), "mapping" (a mapping of
\* usable values), "badargs" (a mapping naming a known prompt whose args is a
\* string) or "list" (not a mapping).
Bodies == {
    [json |-> "invalid", command |-> "", params |-> "none"],
    [json |-> "mapping", command |-> "create_new_sketch", params |-> "mapping"],
    [json |-> "mapping", command |-> "message_box", params |-> "mapping"],
    [json |-> "mapping", command |-> "get_prompt", params |-> "badargs"],
    [json |-> "mapping", command |-> "does_not_exist", params |-> "none"] }

AttributeError == <<"AttributeError: object has no attribute 'get'">>

\* The chain of lines 608-776: what handling a parsed document comes to.
\*   kind "result":  result is set without calling into the host
\*   kind "marshal": create_message_box_command executes a command on the host
\*                   without waiting for it, then result is set
\*   kind "host":    a tool function that calls the host API is called
\*   kind "raise":   an exception leaves the inner try block
Dispatch(body) ==
    IF body.json # "mapping"
    THEN [kind |-> "raise", value |-> AttributeError]
    ELSE CASE body.command \in {"list_resources", "list_tools", "list_prompts"} ->
                  [kind |-> "result", value |-> <<"[", body.command, "]">>]
           [] body.command = "message_box" ->
                  IF body.params = "list"
                  THEN [kind |-> "raise", value |-> AttributeError]
                  ELSE [kind |-> "marshal",
                        value |-> <<"Message processed successfully">>]
           [] body.command \in {"create_new_sketch", "create_parameter"} ->
                  IF body.params = "list"
                  THEN [kind |-> "raise", value |-> AttributeError]
                  ELSE [kind |-> "host", value |-> <<>>]
           [] body.command = "read_resource" ->
                  IF body.params = "list"
                  THEN [kind |-> "raise", value |-> AttributeError]
                  ELSE IF body.params = "mapping"
                  THEN [kind |-> "host", value |-> <<>>]
                  ELSE [kind |-> "result",
                        value |-> <<"{", "error", ":", "Unknown resource URI: ", "}">>]
           [] body.command = "get_prompt" ->
                  IF body.params \in {"list", "badargs"}
                  THEN [kind |-> "raise", value |-> AttributeError]
                  ELSE IF body.params = "mapping"
                  THEN [kind |-> "result", value |-> <<"{", "messages", "}">>]
                  ELSE [kind |-> "result",
                        value |-> <<"{", "error", ":", "Unknown prompt: ", "}">>]
           [] OTHER ->
                  [kind |-> "result", value |-> <<"Unknown command: ", body.command>>]

\* What a tool function called on the Poller thread returns: the tool
\* functions catch their own exceptions and return a string or a mapping.
HostOutcomes(command) ==
    CASE command = "create_new_sketch" ->
             {<<"Sketch created successfully: ">>, <<"No active document">>}
      [] command = "create_parameter" ->
             {<<"Parameter created successfully: ">>, <<"No active document">>}
      [] OTHER ->
             {<<"{", "name", "path", "type", "}">>,
              <<"{", "error", ":", "No active document", "}">>}

-----------------------------------------------------------------------------
(* Response documents: a mapping from top-level field name to payload.      *)

\* json.dump({"result": result}, f, indent=2)
ResultResponse(result) == [result |-> result]

\* json.dump({"error": f"Invalid JSON format: {str(e)}"}, f, indent=2)
JsonErrorResponse == [error |-> <<"Invalid JSON format: ", "JSONDecodeError">>]

\* Mutant of ExceptionResponse: the error is reported beside an empty result.
ExceptionResponseWithResult(e) == [result |-> <<>>, error |-> e]

\* json.dump({"error": str(e)}, f, indent=2)
ExceptionResponse(e) == [error |-> e]

\* Mutant of AlreadyProcessed: the guard looks for the id's tombstone and
\* response in every watched directory.
AlreadyProcessedAnyDir(dir, id) ==
    \E d \in Dirs :
        \/ ProcessedFile(id) \in DOMAIN fs[d]
        \/ ResponseFile(id) \in DOMAIN fs[d]

\* Mutant of AlreadyProcessed: the guard looks for the tombstone only.
AlreadyProcessedTombstoneOnly(dir, id) == ProcessedFile(id) \in DOMAIN fs[dir]

\* os.path.exists(processed_file) or os.path.exists(response_file)
AlreadyProcessed(dir, id) ==
    \/ ProcessedFile(id) \in DOMAIN fs[dir]
    \/ ResponseFile(id) \in DOMAIN fs[dir]

-----------------------------------------------------------------------------
(* Initial state: the module has just been imported.                        *)

NoPoller == [pc |-> "none", di |-> 0, todo |-> {}, cur |-> <<>>, res |-> <<>>]

Init ==
    /\ server_running = FALSE
    /\ server_thread = 0
    /\ hostPc = "idle"
    /\ srv = [t \in Threads |-> "none"]
    /\ pol = [t \in Threads |-> NoPoller]
    /\ fs = [d \in Dirs |-> <<>>]
    /\ nThreads = 0
    /\ nDrops = 0
    /\ nInvoke = [d \in Dirs |-> [i \in Ids |-> 0]]
    /\ nParse = [d \in Dirs |-> [i \in Ids |-> 0]]
    /\ nWrite = [d \in Dirs |-> [i \in Ids |-> 0]]
    /\ skipped = [d \in Dirs |-> [i \in Ids |-> FALSE]]
    /\ packages \in BOOLEAN
    /\ paths = [called |-> FALSE]
    /\ clock = 0
    /\ nDisplay = [k \in Signals |-> 0]
    /\ returned = "none"
    /\ afterStop = {}

-----------------------------------------------------------------------------
(* The directories.                                                         *)

Exists(dir, file) == file \in DOMAIN fs[dir]

\* open(file, "w") followed by json.dump: creates or replaces the file.
WriteFile(dir, file, content) ==
    [fs EXCEPT ![dir] = (file :> content) @@ @]

\* Mutant of RenameFile: the file is copied to dst and src is left in place.
RenameFileByCopy(dir, src, dst) ==
    [fs EXCEPT ![dir] = (dst :> @[src]) @@ @]

\* os.rename(src, dst) of an existing src.
RenameFile(dir, src, dst) ==
    [fs EXCEPT ![dir] =
        (dst :> @[src]) @@ [f \in (DOMAIN @) \ {src} |-> @[f]]]

\* os.listdir(comm_dir), filtered by the command-file name pattern.
ListCommandFiles(dir) == {f \in DOMAIN fs[dir] : IsCommandFile(f)}

Bump(counter, dir, id) == [counter EXCEPT ![dir][id] = @ + 1]

-----------------------------------------------------------------------------
(* The producer: an external client writes command_<id>.json.               *)

\* stop_server has returned and start_server has not been called since.
Stopped == hostPc = "idle" /\ returned \in {"stop: not running", "stop: stopped"}

Drop(dir, name, body) ==
    /\ nDrops < MaxDrops
    /\ ~Exists(dir, CommandFile(name))
    /\ fs' = WriteFile(dir, CommandFile(name), body)
    /\ nDrops' = nDrops + 1
    /\ afterStop' = IF Stopped
                    THEN afterStop \cup {<<dir, ExtractId(CommandFile(name))>>}
                    ELSE afterStop
    /\ UNCHANGED <<server_running, server_thread, hostPc, srv, pol,
                   nThreads, nInvoke, nParse, nWrite, skipped,
                   packages, paths, clock, nDisplay, returned>>

\* A producer writes the signal file message_box.txt into a watched
\* directory that holds none.
DropSignal(dir) ==
    /\ nDrops < MaxDrops
    /\ ~Exists(dir, MessageFile)
    /\ fs' = WriteFile(dir, MessageFile, [signal |-> nDrops + 1])
    /\ nDrops' = nDrops + 1
    /\ UNCHANGED <<server_running, server_thread, hostPc, srv, pol,
                   nThreads, nInvoke, nParse, nWrite, skipped,
                   packages, paths, clock, nDisplay, returned, afterStop>>

\* A second passes.  A pass of the Poller and the time.sleep(0.5) after it
\* take half a second or a little more, so two consecutive passes can fall
\* into one second.
Tick ==
    /\ clock < MaxClock
    /\ clock' = clock + 1
    /\ UNCHANGED <<server_running, server_thread, hostPc, srv, pol, fs,
                   nThreads, nDrops, nInvoke, nParse, nWrite, skipped,
                   packages, paths, nDisplay, returned, afterStop>>

-----------------------------------------------------------------------------
(* get_workspace_paths.                                                     *)

\* The places the workspace root can be: the directory FUSION_MCP_WORKSPACE
\* names, the parent of the add-in folder, the add-in folder itself.
Roots == {"env", "parent", "addon"}

\* What a call meets: whether FUSION_MCP_WORKSPACE is unset, names a
\* directory or names something else; whether the parent of the add-in
\* folder is a directory; and under which roots os.makedirs of mcp_comm
\* raises.
PathEnvs ==
    [env_path : {"unset", "dir", "notdir"},
     candidate_is_dir : BOOLEAN,
     makedirs_raises : SUBSET Roots]

\* Mutant of GetWorkspacePaths: the parent of the add-in folder is tried
\* before the FUSION_MCP_WORKSPACE override.
GetWorkspacePathsParentFirst(env) ==
    LET workspace_path ==
            IF env.candidate_is_dir THEN "parent"
            ELSE IF env.env_path = "dir" THEN "env"
            ELSE "addon"
    IN IF workspace_path \notin env.makedirs_raises
       THEN [raised |-> FALSE, workspace_path |-> workspace_path,
             workspace_comm_dir |-> <<workspace_path, "mcp_comm">>]
       ELSE IF "addon" \notin env.makedirs_raises
       THEN [raised |-> FALSE, workspace_path |-> "addon",
             workspace_comm_dir |-> <<"addon", "mcp_comm">>]
       ELSE [raised |-> TRUE, workspace_path |-> "none",
             workspace_comm_dir |-> <<>>]

\* get_workspace_paths(): the root is derived and its mcp_comm created; on
\* an exception the handler falls back to the add-in folder and creates
\* mcp_comm there, with no try around that os.makedirs.
GetWorkspacePaths(env) ==
    LET workspace_path ==
            IF env.env_path = "dir" THEN "env"
            ELSE IF env.candidate_is_dir THEN "parent"
            ELSE "addon"
    IN IF workspace_path \notin env.makedirs_raises
       THEN [raised |-> FALSE, workspace_path |-> workspace_path,
             workspace_comm_dir |-> <<workspace_path, "mcp_comm">>]
       ELSE IF "addon" \notin env.makedirs_raises
       THEN [raised |-> FALSE, workspace_path |-> "addon",
             workspace_comm_dir |-> <<"addon", "mcp_comm">>]
       ELSE [raised |-> TRUE, workspace_path |-> "none",
             workspace_comm_dir |-> <<>>]

\* A call of get_workspace_paths, as start_server (line 849), run_mcp_server
\* (line 832) and stop_server_on_stop (line 1027) make it.
CallGetWorkspacePaths ==
    /\ \E env \in PathEnvs :
          paths' = [called |-> TRUE, env |-> env, result |-> GetWorkspacePaths(env)]
    /\ UNCHANGED <<server_running, server_thread, hostPc, srv, pol, fs,
                   nThreads, nDrops, nInvoke, nParse, nWrite, skipped,
                   packages, clock, nDisplay, returned, afterStop>>

-----------------------------------------------------------------------------
(* start_server and stop_server, called on the host's thread.               *)

Alive(t) == t # 0 /\ srv[t] \in {"setup", "loop"}

\* Mutant of StartServerMissingPackages: the flag is set before the packages
\* are looked for.
StartServerMissingPackagesSetsFlag ==
    /\ hostPc = "idle"
    /\ ~packages
    /\ server_running' = TRUE
    /\ returned' = "start: missing packages"
    /\ afterStop' = {}
    /\ UNCHANGED <<server_thread, hostPc, srv, pol, fs,
                   nThreads, nDrops, nInvoke, nParse, nWrite, skipped,
                   packages, paths, clock, nDisplay>>

\* check_mcp_installed() is False: start_server returns False.
StartServerMissingPackages ==
    /\ hostPc = "idle"
    /\ ~packages
    /\ returned' = "start: missing packages"
    /\ afterStop' = {}
    /\ UNCHANGED <<server_running, server_thread, hostPc, srv, pol, fs,
                   nThreads, nDrops, nInvoke, nParse, nWrite, skipped,
                   packages, paths, clock, nDisplay>>

\* Mutant of AlreadyRunning: the test of is_alive() is inverted.
AlreadyRunningInverted ==
    server_running /\ server_thread # 0 /\ ~Alive(server_thread)

\* if server_running and server_thread and server_thread.is_alive(): return True
AlreadyRunning == server_running /\ server_thread # 0 /\ Alive(server_thread)

StartServerAlreadyRunning ==
    /\ hostPc = "idle"
    /\ packages
    /\ AlreadyRunning
    /\ returned' = "start: already running"
    /\ afterStop' = {}
    /\ UNCHANGED <<server_running, server_thread, hostPc, srv, pol, fs,
                   nThreads, nDrops, nInvoke, nParse, nWrite, skipped,
                   packages, paths, clock, nDisplay>>

\* server_running = True; the server thread is created and started; the
\* caller then sleeps for the grace period.
StartServerSpawn ==
    /\ hostPc = "idle"
    /\ packages
    /\ ~AlreadyRunning
    /\ nThreads < MaxThreads
    /\ server_running' = TRUE
    /\ nThreads' = nThreads + 1
    /\ server_thread' = nThreads + 1
    /\ srv' = [srv EXCEPT ![nThreads + 1] = "setup"]
    /\ hostPc' = "grace"
    /\ returned' = "none"
    /\ afterStop' = {}
    /\ UNCHANGED <<pol, fs, nDrops, nInvoke, nParse,
                   nWrite, skipped, packages, paths, clock, nDisplay>>

\* Mutant of StartServerGraceEnd: a dead thread is reported, the flag is left
\* as it is.
StartServerGraceEndKeepsFlag ==
    /\ hostPc = "grace"
    /\ hostPc' = "idle"
    /\ returned' = IF Alive(server_thread) THEN "start: started"
                   ELSE "start: thread stopped"
    /\ UNCHANGED <<server_running, server_thread, srv, pol, fs, nThreads, nDrops,
                   nInvoke, nParse, nWrite, skipped, packages, paths, clock, nDisplay, afterStop>>

\* After time.sleep(1): if not server_thread.is_alive(): server_running = False;
\* return False.  Otherwise return True.
StartServerGraceEnd ==
    /\ hostPc = "grace"
    /\ hostPc' = "idle"
    /\ server_running' = IF Alive(server_thread) THEN server_running ELSE FALSE
    /\ returned' = IF Alive(server_thread) THEN "start: started"
                   ELSE "start: thread stopped"
    /\ UNCHANGED <<server_thread, srv, pol, fs, nThreads, nDrops,
                   nInvoke, nParse, nWrite, skipped, packages, paths, clock, nDisplay, afterStop>>

\* Mutant of StopServerNotRunning: without the early return the thread is
\* joined although the flag is already false.
StopServerNotRunningJoins ==
    /\ hostPc = "idle"
    /\ ~server_running
    /\ hostPc' = IF Alive(server_thread) THEN "join" ELSE "idle"
    /\ returned' = IF Alive(server_thread) THEN "none" ELSE "stop: not running"
    /\ UNCHANGED <<server_running, server_thread, srv, pol, fs,
                   nThreads, nDrops, nInvoke, nParse, nWrite, skipped,
                   packages, paths, clock, nDisplay, afterStop>>

\* if not server_running: return
StopServerNotRunning ==
    /\ hostPc = "idle"
    /\ ~server_running
    /\ returned' = "stop: not running"
    /\ UNCHANGED <<server_running, server_thread, hostPc, srv, pol, fs,
                   nThreads, nDrops, nInvoke, nParse, nWrite, skipped,
                   packages, paths, clock, nDisplay, afterStop>>

\* server_running = False; then join the server thread if it is alive.
StopServerBegin ==
    /\ hostPc = "idle"
    /\ server_running
    /\ server_running' = FALSE
    /\ hostPc' = IF Alive(server_thread) THEN "join" ELSE "idle"
    /\ returned' = IF Alive(server_thread) THEN "none" ELSE "stop: stopped"
    /\ UNCHANGED <<server_thread, srv, pol, fs, nThreads,
                   nDrops, nInvoke, nParse, nWrite, skipped,
                   packages, paths, clock, nDisplay, afterStop>>

\* Mutant of StopServerJoinEnd: server_thread.join() without a timeout
\* returns only once the thread has ended.
StopServerJoinForever ==
    /\ hostPc = "join"
    /\ ~Alive(server_thread)
    /\ hostPc' = "idle"
    /\ returned' = "stop: stopped"
    /\ UNCHANGED <<server_running, server_thread, srv, pol, fs,
                   nThreads, nDrops, nInvoke, nParse, nWrite, skipped,
                   packages, paths, clock, nDisplay, afterStop>>

\* server_thread.join(timeout=2.0) returns: the thread has ended, or the two
\* seconds have passed, whatever the thread is doing.
StopServerJoinEnd ==
    /\ hostPc = "join"
    /\ hostPc' = "idle"
    /\ returned' = "stop: stopped"
    /\ UNCHANGED <<server_running, server_thread, srv, pol, fs,
                   nThreads, nDrops, nInvoke, nParse, nWrite, skipped,
                   packages, paths, clock, nDisplay, afterStop>>

-----------------------------------------------------------------------------
(* The server thread: server_thread_func running run_mcp_server.            *)

\* The status snapshot run_mcp_server writes into the workspace's mcp_comm
\* during set-up, and what it says.
StatusFile == <<"server_status", ".", "json">>

StatusRunning == [status |-> "running"]

\* run_mcp_server writes the status snapshot, reaches file_monitor.start()
\* and enters its keep-alive loop.
ServerSetupOk(t) ==
    /\ srv[t] = "setup"
    /\ srv' = [srv EXCEPT ![t] = "loop"]
    /\ pol' = [pol EXCEPT ![t] = [NoPoller EXCEPT !.pc = "check"]]
    /\ fs' = WriteFile("workspace_comm", StatusFile, StatusRunning)
    /\ UNCHANGED <<server_running, server_thread, hostPc,
                   nThreads, nDrops, nInvoke, nParse, nWrite, skipped,
                   packages, paths, clock, nDisplay, returned, afterStop>>

\* run_mcp_server raises during set-up and returns False; server_thread_func
\* then assigns server_running = False, which binds a local of that function
\* (it declares no global), so the module global keeps its value.  The
\* exception comes before the status snapshot is written (line 423) or after.
ServerSetupFail(t) ==
    /\ srv[t] = "setup"
    /\ srv' = [srv EXCEPT ![t] = "dead"]
    /\ \/ UNCHANGED fs
       \/ fs' = WriteFile("workspace_comm", StatusFile, StatusRunning)
    /\ UNCHANGED <<server_running, server_thread, hostPc, pol,
                   nThreads, nDrops, nInvoke, nParse, nWrite, skipped,
                   packages, paths, clock, nDisplay, returned, afterStop>>

\* while server_running: time.sleep(1) ends; server.should_exit = True; return True
ServerLoopExit(t) ==
    /\ srv[t] = "loop"
    /\ ~server_running
    /\ srv' = [srv EXCEPT ![t] = "dead"]
    /\ UNCHANGED <<server_running, server_thread, hostPc, pol, fs,
                   nThreads, nDrops, nInvoke, nParse, nWrite, skipped,
                   packages, paths, clock, nDisplay, returned, afterStop>>

-----------------------------------------------------------------------------
(* The Poller thread: file_monitor_thread.                                  *)

PollerUnchanged ==
    UNCHANGED <<server_running, server_thread, hostPc, srv,
                nThreads, nDrops, packages, paths, clock, nDisplay, returned, afterStop>>

CurDir(p) == WatchedDirs[pol[p].di]

CurId(p) == ExtractId(pol[p].cur)

\* The Poller's locals once the handling of a file has ended with `todo` left
\* of the directory's listing: the next listed file; or, the listing being
\* exhausted, the next directory; or, after the last directory,
\* time.sleep(0.5) and back to the loop test.
AfterFile(p, todo) ==
    IF todo # {}
    THEN [NoPoller EXCEPT !.pc = "file", !.di = pol[p].di, !.todo = todo]
    ELSE IF pol[p].di < Len(WatchedDirs)
    THEN [NoPoller EXCEPT !.pc = "scan", !.di = pol[p].di + 1]
    ELSE [NoPoller EXCEPT !.pc = "check"]

\* while server_running: a pass begins, or the thread ends.
PollerLoopCheck(p) ==
    /\ pol[p].pc = "check"
    /\ pol' = [pol EXCEPT ![p] =
                  IF server_running
                  THEN [NoPoller EXCEPT !.pc = "scan", !.di = 1]
                  ELSE [NoPoller EXCEPT !.pc = "dead"]]
    /\ PollerUnchanged
    /\ UNCHANGED <<fs, nInvoke, nParse, nWrite, skipped>>

\* Mutant of PollerSignal: a failure to archive the signal file ends the
\* handling of the directory.
PollerSignalAbortsDirectory(p) ==
    /\ pol[p].pc = "scan"
    /\ Exists(CurDir(p), MessageFile)
    /\ LET k == fs[CurDir(p)][MessageFile].signal
           target == ArchivedMessageFile(clock)
       IN /\ nDisplay' = [nDisplay EXCEPT ![k] = IF @ < MaxDisplay THEN @ + 1 ELSE @]
          /\ \/ /\ fs' = RenameFile(CurDir(p), MessageFile, target)
                /\ pol' = [pol EXCEPT ![p].pc = "list"]
             \/ /\ Exists(CurDir(p), target)
                /\ UNCHANGED fs
                /\ pol' = [pol EXCEPT ![p] = AfterFile(p, {})]
    /\ UNCHANGED <<server_running, server_thread, hostPc, srv,
                   nThreads, nDrops, nInvoke, nParse, nWrite, skipped,
                   packages, paths, clock, returned, afterStop>>

\* if os.path.exists(message_file): the message is read and
\* create_message_box_command(message) is called; then
\* os.rename(message_file, processed_message_<int(time.time())>.txt).  Where
\* the target exists, os.rename replaces it or raises, depending on the
\* platform; the handler of line 575 logs the exception and the signal file
\* stays.  Either way control goes on to the listing of the directory.
PollerSignal(p) ==
    /\ pol[p].pc = "scan"
    /\ Exists(CurDir(p), MessageFile)
    /\ LET k == fs[CurDir(p)][MessageFile].signal
           target == ArchivedMessageFile(clock)
       IN /\ nDisplay' = [nDisplay EXCEPT ![k] = IF @ < MaxDisplay THEN @ + 1 ELSE @]
          /\ \/ fs' = RenameFile(CurDir(p), MessageFile, target)
             \/ /\ Exists(CurDir(p), target)
                /\ UNCHANGED fs
    /\ pol' = [pol EXCEPT ![p].pc = "list"]
    /\ UNCHANGED <<server_running, server_thread, hostPc, srv,
                   nThreads, nDrops, nInvoke, nParse, nWrite, skipped,
                   packages, paths, clock, returned, afterStop>>

\* Reading the signal file or writing the processing log raises, before
\* create_message_box_command is called or after it: the handler of line 575
\* logs the exception, the signal file stays, and control goes on to the
\* listing of the directory.
PollerSignalFails(p) ==
    /\ pol[p].pc = "scan"
    /\ Exists(CurDir(p), MessageFile)
    /\ LET k == fs[CurDir(p)][MessageFile].signal
       IN \/ UNCHANGED nDisplay
          \/ nDisplay' = [nDisplay EXCEPT ![k] = IF @ < MaxDisplay THEN @ + 1 ELSE @]
    /\ pol' = [pol EXCEPT ![p].pc = "list"]
    /\ UNCHANGED <<server_running, server_thread, hostPc, srv, fs,
                   nThreads, nDrops, nInvoke, nParse, nWrite, skipped,
                   packages, paths, clock, returned, afterStop>>

\* for file in os.listdir(comm_dir): the listing is taken once per directory,
\* after the signal file, if there is one, has been dealt with.
PollerScan(p) ==
    /\ \/ pol[p].pc = "list"
       \/ pol[p].pc = "scan" /\ ~Exists(CurDir(p), MessageFile)
    /\ pol' = [pol EXCEPT ![p] = AfterFile(p, ListCommandFiles(CurDir(p)))]
    /\ PollerUnchanged
    /\ UNCHANGED <<fs, nInvoke, nParse, nWrite, skipped>>

\* The next listed command file: its id is extracted and the dedup guard is
\* evaluated; a guarded file is skipped (continue).
PollerNextFile(p) ==
    /\ pol[p].pc = "file"
    /\ \E f \in pol[p].todo :
          IF AlreadyProcessed(CurDir(p), ExtractId(f))
          THEN /\ pol' = [pol EXCEPT ![p] = AfterFile(p, pol[p].todo \ {f})]
               /\ skipped' = [skipped EXCEPT ![CurDir(p)][ExtractId(f)] = TRUE]
          ELSE /\ pol' = [pol EXCEPT ![p].pc = "read", ![p].cur = f,
                                     ![p].todo = @ \ {f}]
               /\ UNCHANGED skipped
    /\ PollerUnchanged
    /\ UNCHANGED <<fs, nInvoke, nParse, nWrite>>

\* open(command_file) and json.load, then the dispatch chain up to the point
\* where result is set, a tool function is entered, or an exception leaves.
PollerRead(p) ==
    /\ pol[p].pc = "read"
    /\ IF ~Exists(CurDir(p), pol[p].cur)
       THEN /\ pol' = [pol EXCEPT ![p].pc = "exc",
                                  ![p].res = <<"FileNotFoundError">>]
            /\ UNCHANGED <<nInvoke, nParse>>
       ELSE LET body == fs[CurDir(p)][pol[p].cur]
                out == Dispatch(body)
                invoked == body.json = "mapping" /\ body.command \in Registry
            IN /\ nParse' = Bump(nParse, CurDir(p), CurId(p))
               /\ nInvoke' = IF invoked THEN Bump(nInvoke, CurDir(p), CurId(p))
                             ELSE nInvoke
               /\ IF body.json = "invalid"
                  THEN /\ pol' = [pol EXCEPT ![p].pc = "jsonerr"]
                  ELSE CASE out.kind = "raise" ->
                                /\ pol' = [pol EXCEPT ![p].pc = "exc",
                                                      ![p].res = out.value]
                         [] out.kind = "result" ->
                                /\ pol' = [pol EXCEPT ![p].pc = "write",
                                                      ![p].res = out.value]
                         [] out.kind = "marshal" ->
                                /\ pol' = [pol EXCEPT ![p].pc = "write",
                                                      ![p].res = out.value]
                         [] out.kind = "host" ->
                                /\ pol' = [pol EXCEPT ![p].pc = "host",
                                                      ![p].res = <<body.command>>]
    /\ PollerUnchanged
    /\ UNCHANGED <<fs, nWrite, skipped>>

\* The tool function called on the Poller thread returns: a step of the host
\* API, which the Poller waits for without a timeout.
PollerHostReturn(p) ==
    /\ pol[p].pc = "host"
    /\ \E r \in HostOutcomes(pol[p].res[1]) :
          pol' = [pol EXCEPT ![p].pc = "write", ![p].res = r]
    /\ PollerUnchanged
    /\ UNCHANGED <<fs, nInvoke, nParse, nWrite, skipped>>

\* Mutant of PollerWriteResponse: the command file is renamed without the
\* response having been written.
PollerWriteResponseSkipped(p) ==
    /\ pol[p].pc = "write"
    /\ pol' = [pol EXCEPT ![p].pc = "rename", ![p].res = <<>>]
    /\ PollerUnchanged
    /\ UNCHANGED <<fs, nInvoke, nParse, nWrite, skipped>>

\* with open(response_file, "w") as f: json.dump({"result": result}, f, indent=2)
PollerWriteResponse(p) ==
    /\ pol[p].pc = "write"
    /\ fs' = WriteFile(CurDir(p), ResponseFile(CurId(p)), ResultResponse(pol[p].res))
    /\ nWrite' = Bump(nWrite, CurDir(p), CurId(p))
    /\ pol' = [pol EXCEPT ![p].pc = "rename", ![p].res = <<>>]
    /\ PollerUnchanged
    /\ UNCHANGED <<nInvoke, nParse, skipped>>

\* os.rename(command_file, processed_file).  A missing source raises; an
\* existing target is replaced or raises, depending on the platform.
PollerRename(p) ==
    /\ pol[p].pc = "rename"
    /\ \/ /\ Exists(CurDir(p), pol[p].cur)
          /\ fs' = RenameFile(CurDir(p), pol[p].cur, ProcessedFile(CurId(p)))
          /\ pol' = [pol EXCEPT ![p] = AfterFile(p, pol[p].todo)]
       \/ /\ ~Exists(CurDir(p), pol[p].cur)
          /\ pol' = [pol EXCEPT ![p].pc = "exc", ![p].res = <<"FileNotFoundError">>]
          /\ UNCHANGED fs
       \/ /\ Exists(CurDir(p), pol[p].cur)
          /\ Exists(CurDir(p), ProcessedFile(CurId(p)))
          /\ pol' = [pol EXCEPT ![p].pc = "exc", ![p].res = <<"FileExistsError">>]
          /\ UNCHANGED fs
    /\ PollerUnchanged
    /\ UNCHANGED <<nInvoke, nParse, nWrite, skipped>>

\* except json.JSONDecodeError: the error response is written; the command
\* file is left where it is.
PollerJsonError(p) ==
    /\ pol[p].pc = "jsonerr"
    /\ fs' = WriteFile(CurDir(p), ResponseFile(CurId(p)), JsonErrorResponse)
    /\ nWrite' = Bump(nWrite, CurDir(p), CurId(p))
    /\ pol' = [pol EXCEPT ![p] = AfterFile(p, pol[p].todo)]
    /\ PollerUnchanged
    /\ UNCHANGED <<nInvoke, nParse, skipped>>

\* Mutant of PollerException: the exception is swallowed and no response is
\* written.
PollerExceptionSwallowed(p) ==
    /\ pol[p].pc = "exc"
    /\ pol' = [pol EXCEPT ![p] = AfterFile(p, pol[p].todo)]
    /\ PollerUnchanged
    /\ UNCHANGED <<fs, nInvoke, nParse, nWrite, skipped>>

\* Mutant of PollerException: the handler sits outside the loop over the
\* files, so the rest of the directory's listing is dropped.
PollerExceptionAbortsDirectory(p) ==
    /\ pol[p].pc = "exc"
    /\ fs' = WriteFile(CurDir(p), ResponseFile(CurId(p)), ExceptionResponse(pol[p].res))
    /\ nWrite' = Bump(nWrite, CurDir(p), CurId(p))
    /\ pol' = [pol EXCEPT ![p] = AfterFile(p, {})]
    /\ PollerUnchanged
    /\ UNCHANGED <<nInvoke, nParse, skipped>>

\* except Exception as e: the error response is written; the command file is
\* left where it is.
PollerException(p) ==
    /\ pol[p].pc = "exc"
    /\ fs' = WriteFile(CurDir(p), ResponseFile(CurId(p)), ExceptionResponse(pol[p].res))
    /\ nWrite' = Bump(nWrite, CurDir(p), CurId(p))
    /\ pol' = [pol EXCEPT ![p] = AfterFile(p, pol[p].todo)]
    /\ PollerUnchanged
    /\ UNCHANGED <<nInvoke, nParse, skipped>>

-----------------------------------------------------------------------------
(* The Poller when the scan of a watched directory raises.                  *)

ErrorFile == <<"error", ".", "txt">>

\* os.makedirs(comm_dir) or os.listdir(comm_dir) raises: control reaches the
\* handler of the directory's try block (line 799).
PollerScanFails(p) ==
    /\ pol[p].pc \in {"scan", "list"}
    /\ pol' = [pol EXCEPT ![p].pc = "direrr"]
    /\ PollerUnchanged
    /\ UNCHANGED <<fs, nInvoke, nParse, nWrite, skipped>>

\* except Exception (line 799): error.txt is written into the workspace's
\* mcp_comm, and the loop over comm_dirs goes on with the next directory.
PollerDirErrorRecorded(p) ==
    /\ pol[p].pc = "direrr"
    /\ fs' = WriteFile("workspace_comm", ErrorFile, <<"Error in file monitor for directory">>)
    /\ pol' = [pol EXCEPT ![p] = AfterFile(p, {})]
    /\ PollerUnchanged
    /\ UNCHANGED <<nInvoke, nParse, nWrite, skipped>>

\* The open or the write of error.txt in that handler raises: nothing
\* catches it inside the loops, it leaves the while loop and reaches the
\* handler of the thread's try block (line 807), after which the thread ends.
PollerDirErrorFails(p) ==
    /\ pol[p].pc = "direrr"
    /\ pol' = [pol EXCEPT ![p] = [NoPoller EXCEPT !.pc = "dead"]]
    /\ PollerUnchanged
    /\ UNCHANGED <<fs, nInvoke, nParse, nWrite, skipped>>

PollerFault(p) ==
    \/ PollerScanFails(p)
    \/ PollerDirErrorRecorded(p)
    \/ PollerDirErrorFails(p)

-----------------------------------------------------------------------------
(* Specifications.                                                          *)

PollerStep(p) ==
    \/ PollerLoopCheck(p)
    \/ PollerScan(p)
    \/ PollerNextFile(p)
    \/ PollerRead(p)
    \/ PollerHostReturn(p)
    \/ PollerWriteResponse(p)
    \/ PollerRename(p)
    \/ PollerJsonError(p)
    \/ PollerException(p)

ServerStep(t) ==
    \/ ServerSetupOk(t)
    \/ ServerSetupFail(t)
    \/ ServerLoopExit(t)

StartServer ==
    \/ StartServerMissingPackages
    \/ StartServerAlreadyRunning
    \/ StartServerSpawn
    \/ StartServerGraceEnd

StopServer ==
    \/ StopServerNotRunning
    \/ StopServerBegin
    \/ StopServerJoinEnd

Producer == \E d \in Dirs, n \in Names, b \in Bodies : Drop(d, n, b)

Next ==
    \/ StartServer
    \/ StopServer
    \/ \E t \in Threads : ServerStep(t)
    \/ \E p \in Threads : PollerStep(p)
    \/ Producer

Spec == Init /\ [][Next]_vars

\* One Running epoch at a time: the program with stop_server never called.
\* The flag is then never false while a server thread is in its loop, so
\* ServerLoopExit is never enabled and is left out.
NextRunning ==
    \/ StartServer
    \/ \E t \in Threads : ServerSetupOk(t) \/ ServerSetupFail(t)
    \/ \E p \in Threads : PollerStep(p)
    \/ Producer

SpecRunning == Init /\ [][NextRunning]_vars

\* One Running epoch on a filesystem where the scan of a directory and the
\* write of error.txt may raise.
NextFaulty ==
    \/ NextRunning
    \/ \E p \in Threads : PollerFault(p)

SpecFaulty == Init /\ [][NextFaulty]_vars


\* The program while no producer writes a command file: the lifecycle
\* functions, the server threads and the Pollers' passes over empty
\* directories.
NextLifecycle ==
    \/ StartServer
    \/ StopServer
    \/ \E t \in Threads : ServerStep(t)
    \/ \E p \in Threads : PollerLoopCheck(p) \/ PollerScan(p)

SpecLifecycle == Init /\ [][NextLifecycle]_vars

\* The lifecycle together with the calls of get_workspace_paths.
NextPaths ==
    \/ NextLifecycle
    \/ CallGetWorkspacePaths

SpecPaths == Init /\ [][NextPaths]_vars

\* Scheduling of stop_server: the host's thread, blocked in
\* server_thread.join(timeout=2.0), goes on once the join returns.  No step
\* of a server thread or of a Poller is assumed to happen.
SpecStop ==
    /\ Init
    /\ [][NextLifecycle]_vars
    /\ WF_vars(StopServerJoinEnd)

\* The <id> part of names whose id holds one of the separators "_" and "."
\* (a time stamp with a fraction, a token with an underscore).
SeparatorNames == {<<"1", "_", "2">>, <<"2", ".", "1">>}

\* One Running epoch, with a producer that also uses such names.
ProducerAnyName ==
    \E d \in Dirs, n \in Names \cup SeparatorNames, b \in Bodies : Drop(d, n, b)

NextNames ==
    \/ StartServer
    \/ \E t \in Threads : ServerSetupOk(t) \/ ServerSetupFail(t)
    \/ \E p \in Threads : PollerStep(p)
    \/ ProducerAnyName

SpecNames == Init /\ [][NextNames]_vars

\* One Running epoch, with a producer that also writes signal files, while
\* time passes.
ProducerSignal == \E d \in Dirs : DropSignal(d)

NextSignals ==
    \/ NextRunning
    \/ \E p \in Threads : PollerSignal(p)
    \/ ProducerSignal
    \/ Tick

SpecSignals == Init /\ [][NextSignals]_vars

\* One Running epoch in which the handling of a signal file may fail, with a
\* producer of signal files and of message_box commands.
MessageBody == [json |-> "mapping", command |-> "message_box", params |-> "mapping"]

ProducerMessage == \E d \in Dirs, n \in Names : Drop(d, n, MessageBody)

NextSignalFaults ==
    \/ StartServer
    \/ \E t \in Threads : ServerSetupOk(t) \/ ServerSetupFail(t)
    \/ \E p \in Threads :
          \/ PollerLoopCheck(p)
          \/ PollerSignal(p)
          \/ PollerSignalFails(p)
          \/ PollerScan(p)
          \/ PollerNextFile(p)
          \/ PollerRead(p)
          \/ PollerWriteResponse(p)
          \/ PollerRename(p)
    \/ ProducerSignal
    \/ ProducerMessage
    \/ Tick

SpecSignalFaults == Init /\ [][NextSignalFaults]_vars

\* Bodies that are JSON but not of the shape {"command": string,
\* "params": mapping}: a document that is a list; and documents whose params
\* is a list, for a command that reads its params and for one that does not.
ShapeBodies == {
    [json |-> "list", command |-> "", params |-> "none"],
    [json |-> "mapping", command |-> "create_new_sketch", params |-> "list"],
    [json |-> "mapping", command |-> "list_tools", params |-> "list"] }

\* One Running epoch, with a producer that also writes such bodies.
ProducerAnyShape ==
    \E d \in Dirs, n \in Names, b \in Bodies \cup ShapeBodies : Drop(d, n, b)

NextShapes ==
    \/ StartServer
    \/ \E t \in Threads : ServerSetupOk(t) \/ ServerSetupFail(t)
    \/ \E p \in Threads : PollerStep(p)
    \/ ProducerAnyShape

SpecShapes == Init /\ [][NextShapes]_vars

\* Stop and start again: the whole program, with a producer that writes one
\* command file, while the server is stopped.
ProducerWhileStopped == Stopped /\ nDrops = 0 /\ Producer

NextRestart ==
    \/ StartServer
    \/ StopServer
    \/ \E t \in Threads : ServerStep(t)
    \/ \E p \in Threads : PollerStep(p)
    \/ ProducerWhileStopped

SpecRestart == Init /\ [][NextRestart]_vars

\* The process dies (the host application crashes or is killed) and the
\* module is imported anew: every thread is gone, the globals have their
\* initial values, the directories are as they were left.
Crash ==
    /\ \E t \in Threads : srv[t] \in {"setup", "loop"}
    /\ server_running' = FALSE
    /\ server_thread' = 0
    /\ hostPc' = "idle"
    /\ srv' = [t \in Threads |-> IF srv[t] = "none" THEN "none" ELSE "dead"]
    /\ pol' = [t \in Threads |->
                  IF pol[t].pc = "none" THEN NoPoller
                  ELSE [NoPoller EXCEPT !.pc = "dead"]]
    /\ returned' = "none"
    /\ afterStop' = {}
    /\ UNCHANGED <<fs, nThreads, nDrops, nInvoke, nParse, nWrite, skipped,
                   packages, paths, clock, nDisplay>>

NextCrash ==
    \/ NextRunning
    \/ Crash

SpecCrash == Init /\ [][NextCrash]_vars

\* Scheduling: the operating system runs every thread that can take a step,
\* so each step of a Poller and of a server thread is weakly fair.  The
\* return of a call into the host API is the host's step, not the Poller's:
\* nothing in the code bounds it, and it carries no fairness.
PollerOwnStep(p) ==
    \/ PollerLoopCheck(p)
    \/ PollerScan(p)
    \/ PollerNextFile(p)
    \/ PollerRead(p)
    \/ PollerWriteResponse(p)
    \/ PollerRename(p)
    \/ PollerJsonError(p)
    \/ PollerException(p)

SpecLive ==
    /\ Init
    /\ [][NextRunning]_vars
    /\ \A p \in Threads : WF_vars(PollerOwnStep(p))
    /\ \A t \in Threads : WF_vars(ServerSetupOk(t) \/ ServerSetupFail(t))

\* The same scheduling for the whole program with stop_server: the steps of
\* the Pollers and of the server threads are weakly fair, and so is the
\* return of server_thread.join(timeout=2.0); the return of a call into the
\* host API is not.
SpecWindDown ==
    /\ Init
    /\ [][NextRestart]_vars
    /\ \A p \in Threads : WF_vars(PollerOwnStep(p))
    /\ \A t \in Threads : WF_vars(ServerStep(t))
    /\ WF_vars(StopServerJoinEnd)

-----------------------------------------------------------------------------
(* Properties.                                                              *)

\* A Poller is between the guard and the end of its handling of the command
\* file with this id in this directory.
Handling(dir, id) ==
    \E p \in Threads :
        /\ pol[p].pc \in {"read", "host", "write", "rename", "jsonerr", "exc"}
        /\ CurDir(p) = dir
        /\ CurId(p) = id

HasResponse(dir, id) == Exists(dir, ResponseFile(id))

Response(dir, id) == fs[dir][ResponseFile(id)]

C2_OneRunningEpoch ==
    /\ Cardinality({p \in Threads : pol[p].pc \notin {"none", "dead", "check"}}) <= 1
    /\ Cardinality({t \in Threads : srv[t] = "loop"}) <= 1

\* C3: when the process dies at any point of the handling of a command file
\* and polling resumes later on the same directory, the handler for that id
\* is not executed a second time.
C3_NoSecondExecutionAfterCrash ==
    \A d \in Dirs, i \in Ids :
        nInvoke[d][i] >= 1 => nInvoke[d][i] = 1

\* C4: every response file holds exactly one of the top-level fields result
\* and error.
C4_ExactlyOneOfResultError ==
    \A d \in Dirs, i \in Ids :
        HasResponse(d, i) => DOMAIN Response(d, i) \in {{"result"}, {"error"}}

\* Responses of both kinds are on disk: the error response of a file that is
\* not JSON and a result response.
C4_Witness ==
    \E d1 \in Dirs, d2 \in Dirs, i1 \in Ids, i2 \in Ids :
        /\ HasResponse(d1, i1)
        /\ HasResponse(d2, i2)
        /\ DOMAIN Response(d1, i1) = {"error"}
        /\ DOMAIN Response(d2, i2) = {"result"}


\* The body is a JSON mapping whose command matches no branch of the dispatch
\* chain.
UnknownCommand(body) == body.json = "mapping" /\ body.command \notin Registry

\* C5: a command file naming a command that is not in the registry gets a
\* response whose error field names the command and that has no result field.
C5_UnknownCommandErrorResponse ==
    \A d \in Dirs, i \in Ids :
        (/\ Exists(d, ProcessedFile(i))
         /\ UnknownCommand(fs[d][ProcessedFile(i)])
         /\ HasResponse(d, i))
        => /\ DOMAIN Response(d, i) = {"error"}
           /\ \E k \in 1..Len(Response(d, i).error) :
                 Response(d, i).error[k] = fs[d][ProcessedFile(i)].command

\* The id's response is the error response of a file that is not JSON, and
\* the handling of that file has ended.
HandledInvalidJson(dir, id) ==
    /\ HasResponse(dir, id)
    /\ Response(dir, id) = JsonErrorResponse
    /\ ~Handling(dir, id)

\* C6: once a command file holding invalid JSON has been handled, its error
\* response is on disk and the file has been renamed to its tombstone.
C6_InvalidJsonTombstoned ==
    \A d \in Dirs, i \in Ids :
        HandledInvalidJson(d, i) => Exists(d, ProcessedFile(i))

C8_HandlerExceptionTombstoned ==
    \A d \in Dirs, i \in Ids :
        (/\ HasResponse(d, i)
         /\ Response(d, i) = ExceptionResponse(AttributeError)
         /\ ~Handling(d, i))
        => Exists(d, ProcessedFile(i))

\* A Poller is inside a tool function's call into the host for a command
\* file other than this one.
StalledOnOther(dir, name) ==
    \E p \in Threads :
        /\ pol[p].pc = "host"
        /\ <<CurDir(p), pol[p].cur>> # <<dir, CommandFile(name)>>

\* C9: while the server stays Running, a command file that is present while
\* the handler of another command is inside its host-side work eventually has
\* a response, whether or not that host-side work ever completes.
C9_StalledHandlerDoesNotWedgeBus ==
    \A d \in Dirs, n \in Names :
        (Exists(d, CommandFile(n)) /\ StalledOnOther(d, n))
        ~> HasResponse(d, ExtractId(CommandFile(n)))

\* A response that reports a timeout as an error.
IsTimeoutError(response) ==
    /\ DOMAIN response = {"error"}
    /\ \E k \in 1..Len(response.error) : response.error[k] = "timeout"

\* C10: a command whose handler is inside host-side work eventually either
\* sees that work completed or has a timeout error as its response.
C10_UnservicedHandlerTimesOut ==
    \A p \in Threads :
        (pol[p].pc = "host")
        ~> (\/ pol[p].pc # "host"
            \/ /\ HasResponse(CurDir(p), CurId(p))
               /\ IsTimeoutError(Response(CurDir(p), CurId(p))))

\* The test of line 864 passes: the flag is set and the thread that
\* server_thread names is alive.
Running == server_running /\ Alive(server_thread)

C12_StopAlwaysReturns ==
    (hostPc = "join") ~> (hostPc = "idle" /\ returned = "stop: stopped")

\* stop_server has returned while the server thread it waited for and a
\* Poller are still alive: the threads were left behind.
C12_Witness ==
    /\ hostPc = "idle"
    /\ returned = "stop: stopped"
    /\ Alive(server_thread)
    /\ \E p \in Threads : pol[p].pc \in {"check", "scan"}

\* C14: when the server thread is dead at the end of the grace period,
\* start_server returns failure and the running flag is false on return.
C14_DeadThreadStartFails ==
    [][(hostPc = "grace" /\ ~Alive(server_thread) /\ hostPc' = "idle")
       => /\ returned' = "start: thread stopped"
          /\ server_running' = FALSE]_vars

\* start_server has returned failure for a server thread that died during
\* the grace period.
C14_Witness ==
    /\ hostPc = "idle"
    /\ returned = "start: thread stopped"
    /\ srv[server_thread] = "dead"
    /\ ~server_running

C16_StopWhileStoppedIsNoOp ==
    [][(hostPc = "idle" /\ ~server_running /\ StopServer)
       => /\ hostPc' = "idle"
          /\ returned' = "stop: not running"
          /\ UNCHANGED <<server_running, server_thread, srv, pol, nThreads>>]_vars

\* stop_server has returned from a call made while the flag was false,
\* although a server thread is alive that it could have waited for.
C16_Witness ==
    /\ hostPc = "idle"
    /\ returned = "stop: not running"
    /\ Alive(server_thread)

\* C13: once stop_server has returned, and until start_server is called, no
\* response file is written for a command file that was put into a watched
\* directory after stop_server returned.
C13_NoResponseAfterStop ==
    [][\A d \in Dirs, i \in Ids :
          (Stopped /\ <<d, i>> \in afterStop) => nWrite'[d][i] = nWrite[d][i]]_vars

\* C17: a response file, once written, stays in its directory with the
\* content it was written with.
C17_ResponseImmutable ==
    [][\A d \in Dirs, i \in Ids :
          HasResponse(d, i)
          => /\ ResponseFile(i) \in DOMAIN fs'[d]
             /\ fs'[d][ResponseFile(i)] = Response(d, i)]_vars

\* C18: the id the Poller extracts from the name command_<id>.json of the
\* file it handles is the whole <id>, so that the response and the tombstone
\* it writes are response_<id>.json and processed_command_<id>.json and no two
\* command file names share them.
C18_IdIsWholeName ==
    \A p \in Threads :
        pol[p].pc \in {"read", "host", "write", "rename", "jsonerr", "exc"}
        => pol[p].cur = CommandFile(CurId(p))

\* C19: no Poller thread is ever inside a call of the host API: the
\* handlers that read or change host state run on the host's own thread.
C19_HostAccessOnlyOnHostThread ==
    \A p \in Threads : pol[p].pc # "host"

C28_OnlyTheFlagEndsTheLoop ==
    [][\A p \in Threads :
          (pol[p].pc \notin {"none", "dead"} /\ pol'[p].pc = "dead")
          => (pol[p].pc = "check" /\ ~server_running)]_vars

\* C29: after a failure while scanning a watched directory that is not the
\* last one, the Poller scans the next watched directory in the same pass.
C29_DirectoryFailureDoesNotAbortPass ==
    [][\A p \in Threads :
          (/\ pol[p].pc = "direrr"
           /\ pol[p].di < Len(WatchedDirs)
           /\ pol'[p] # pol[p])
          => (pol'[p].pc = "scan" /\ pol'[p].di = pol[p].di + 1)]_vars

\* C30: the step that ends the handling of a command file that failed (not
\* JSON, or an exception) changes nothing but that file's response, and the
\* Poller goes on with the other files of the same directory listing.
C30_FileFailureIsConfined ==
    [][\A p \in Threads :
          (pol[p].pc \in {"exc", "jsonerr"} /\ pol'[p] # pol[p])
          => /\ pol'[p] = AfterFile(p, pol[p].todo)
             /\ \A d \in Dirs :
                   /\ DOMAIN fs'[d] \subseteq
                         DOMAIN fs[d] \cup
                           (IF d = CurDir(p) THEN {ResponseFile(CurId(p))} ELSE {})
                   /\ \A f \in DOMAIN fs[d] :
                         (d # CurDir(p) \/ f # ResponseFile(CurId(p)))
                         => (f \in DOMAIN fs'[d] /\ fs'[d][f] = fs[d][f])]_vars

\* A Poller is reading a command file while another command file of the same
\* directory, whose handler raised, has its error response and has not been
\* met by a later scan.
C30_Witness ==
    \E p \in Threads, n \in Names :
        LET i == ExtractId(CommandFile(n))
        IN /\ pol[p].pc = "read"
           /\ pol[p].cur # CommandFile(n)
           /\ Exists(CurDir(p), CommandFile(n))
           /\ HasResponse(CurDir(p), i)
           /\ Response(CurDir(p), i) = ExceptionResponse(AttributeError)
           /\ ~skipped[CurDir(p)][i]

\* C26: whenever the tombstone processed_command_<id>.json exists, the
\* response response_<id>.json exists beside it, and the step of a Poller
\* that renames a command file ends the handling of that file.
C26_ResponseBeforeTombstone ==
    /\ [](\A d \in Dirs, i \in Ids : Exists(d, ProcessedFile(i)) => HasResponse(d, i))
    /\ [][\A p \in Threads :
             (pol[p].pc = "rename" /\ pol'[p] # pol[p] /\ fs' # fs)
             => pol'[p] = AfterFile(p, pol[p].todo)]_vars

\* A command file has been renamed to its tombstone and its response holds a
\* result.
C26_Witness ==
    \E d \in Dirs, i \in Ids :
        /\ Exists(d, ProcessedFile(i))
        /\ HasResponse(d, i)
        /\ DOMAIN Response(d, i) = {"result"}
        /\ nWrite[d][i] = 1

\* C27: once a poll pass has observed the command file of an id, at most one
\* of command_<id>.json and processed_command_<id>.json exists.
C27_AtMostOneOfPendingAndTombstone ==
    \A d \in Dirs, n \in Names :
        ~(/\ Exists(d, CommandFile(n))
          /\ Exists(d, ProcessedFile(ExtractId(CommandFile(n)))))

\* C27, amended: a tombstone appears only in a step in which a pending
\* command file of its id disappears and its content becomes the tombstone's
\* (one rename), and a pending command file disappears only in such a step;
\* a command file of the id that is present after the rename is left in
\* place beside the tombstone.
C27_TombstoneByOneRename ==
    [][\A d \in Dirs :
          /\ \A i \in Ids :
                (~Exists(d, ProcessedFile(i)) /\ ProcessedFile(i) \in DOMAIN fs'[d])
                => \E f \in ListCommandFiles(d) :
                      /\ ExtractId(f) = i
                      /\ f \notin DOMAIN fs'[d]
                      /\ fs'[d][ProcessedFile(i)] = fs[d][f]
          /\ \A f \in ListCommandFiles(d) :
                f \notin DOMAIN fs'[d]
                => /\ ProcessedFile(ExtractId(f)) \in DOMAIN fs'[d]
                   /\ fs'[d][ProcessedFile(ExtractId(f))] = fs[d][f]]_vars

\* A pending file has become its tombstone and no pending file of the id is
\* left.
C27_Witness ==
    \E d \in Dirs, n \in Names :
        /\ Exists(d, ProcessedFile(ExtractId(CommandFile(n))))
        /\ ~Exists(d, CommandFile(n))
        /\ nParse[d][ExtractId(CommandFile(n))] = 1

\* The Poller thread that server thread t started (file_monitor.start())
\* is alive.
PollerAlive(t) == t # 0 /\ pol[t].pc \notin {"none", "dead"}

\* C24: when start_server returns success, the server thread and the Poller
\* thread are both alive in the state it returns in.
C24_SuccessMeansBothThreadsAlive ==
    [][(\/ (hostPc = "grace" /\ hostPc' = "idle" /\ returned' = "start: started")
        \/ (hostPc = "idle" /\ Running /\ StartServer))
       => /\ srv'[server_thread'] \in {"setup", "loop"}
          /\ pol'[server_thread'].pc \notin {"none", "dead"}]_vars

\* C25: when stop_server, called while Running, returns after a wait in
\* which the server thread has ended, the Poller of that server thread is
\* not alive either: both threads were waited for.
C25_StopWaitsForBothThreads ==
    [][(hostPc = "join" /\ hostPc' = "idle" /\ ~Alive(server_thread))
       => ~PollerAlive(server_thread)]_vars

\* C21: a call of get_workspace_paths raises nothing, whatever the
\* filesystem does, and returns a pair of paths.
C21_GetWorkspacePathsNeverRaises ==
    paths.called
    => /\ ~paths.result.raised
       /\ paths.result.workspace_path \in Roots
       /\ paths.result.workspace_comm_dir = <<paths.result.workspace_path, "mcp_comm">>

\* C22: while the server stays Running and the Poller's own steps are
\* scheduled fairly, a command file present in a watched directory
\* eventually has a response file for its id.
C22_EveryCommandFileIsAnswered ==
    \A d \in Dirs, n \in Names :
        (Running /\ Exists(d, CommandFile(n)))
        ~> (~Running \/ HasResponse(d, ExtractId(CommandFile(n))))

\* C23: once the running flag is false and stays false, every Poller's loop
\* eventually exits; and a Poller whose loop test has seen the flag false
\* has ended, so it writes no response and renames no file afterwards.
C23_PollerExitsOnceStopped ==
    /\ \A p \in Threads :
          (~server_running /\ PollerAlive(p))
          ~> (server_running \/ pol[p].pc = "dead")
    /\ [][\A p \in Threads :
              /\ (pol[p].pc = "check" /\ ~server_running /\ pol'[p] # pol[p])
                 => pol'[p].pc = "dead"
              /\ pol[p].pc = "dead" => pol'[p].pc = "dead"]_vars

\* The root the resolution order names: the override if it is a directory,
\* else the parent of the add-in folder if it is a directory, else the add-in
\* folder.
RootByOrder(env) ==
    IF env.env_path = "dir" THEN "env"
    ELSE IF env.candidate_is_dir THEN "parent"
    ELSE "addon"

\* C34: the root a call of get_workspace_paths returns is the one the
\* resolution order names, and the comm root returned is its mcp_comm.
C34_RootByResolutionOrder ==
    (paths.called /\ ~paths.result.raised)
    => /\ paths.result.workspace_path = RootByOrder(paths.env)
       /\ paths.result.workspace_comm_dir = <<paths.result.workspace_path, "mcp_comm">>

\* C34, amended: the root returned is the one the resolution order names
\* whenever mcp_comm can be created under it; when it cannot, that root is
\* not returned: the add-in folder is, or the call raises; and a comm root
\* returned is the mcp_comm of the root returned with it.
C34_RootByOrderUnlessCreationFails ==
    paths.called
    => LET root == RootByOrder(paths.env)
           res == paths.result
       IN /\ root \notin paths.env.makedirs_raises
             => (~res.raised /\ res.workspace_path = root)
          /\ (root \in paths.env.makedirs_raises /\ "addon" \notin paths.env.makedirs_raises)
             => (~res.raised /\ res.workspace_path = "addon")
          /\ (root \in paths.env.makedirs_raises /\ "addon" \in paths.env.makedirs_raises)
             => res.raised
          /\ ~res.raised
             => res.workspace_comm_dir = <<res.workspace_path, "mcp_comm">>

\* The override names a directory, the parent of the add-in folder is a
\* directory too, and the override was returned.
C34_Witness ==
    /\ paths.called
    /\ paths.env.env_path = "dir"
    /\ paths.env.candidate_is_dir
    /\ ~paths.result.raised
    /\ paths.result.workspace_path = "env"

\* C35: the step in which a server thread ends because run_mcp_server
\* returned False or raised leaves the running flag false; and a true running
\* flag implies that the server thread is alive.
C35_FlagFalseAfterThreadFailure ==
    /\ [][\A t \in Threads :
              (srv[t] = "setup" /\ srv'[t] = "dead") => ~server_running']_vars
    /\ [](server_running => Alive(server_thread))

\* The status snapshot says that the server is running.
StatusSaysRunning ==
    /\ Exists("workspace_comm", StatusFile)
    /\ fs["workspace_comm"][StatusFile] = StatusRunning

\* C36: whenever no call of start_server or stop_server is under way and the
\* server is not Running (stop_server has returned, or the server thread has
\* died), the status snapshot does not say "running".
C36_StatusRunningOnlyWhileRunning ==
    (hostPc = "idle" /\ ~Running) => ~StatusSaysRunning

\* A body that is JSON but not of the expected shape.
WrongShape(body) ==
    \/ body.json = "list"
    \/ body.json = "mapping" /\ body.params = "list"

\* The body the response of an id was made from: the tombstone's if the
\* command file was renamed, else the command file's, which is still there.
HandledFile(d, i) ==
    IF Exists(d, ProcessedFile(i)) THEN ProcessedFile(i) ELSE CommandFile(i)

\* C37: a command file whose body is JSON of the wrong shape gets an error
\* response for its id, is parsed once and dispatched to no handler, and the
\* Poller that handled it has not ended.
C37_WrongShapeGetsErrorOnce ==
    \A d \in Dirs, i \in Ids :
        (/\ HasResponse(d, i)
         /\ ~Handling(d, i)
         /\ Exists(d, HandledFile(d, i))
         /\ WrongShape(fs[d][HandledFile(d, i)]))
        => /\ DOMAIN Response(d, i) = {"error"}
           /\ nParse[d][i] = 1
           /\ nWrite[d][i] = 1
           /\ \A p \in Threads : pol[p].pc # "dead"

\* C31: create_message_box_command is called at most once for each signal
\* file put into a watched directory.
C31_SignalActedOnAtMostOnce ==
    \A k \in Signals : nDisplay[k] <= 1

\* C32: whenever the Poller archives a signal file, the name
\* processed_message_<unixtime>.txt it renames to is not in the directory yet.
C32_ArchivedNamesNeverCollide ==
    [][\A p \in Threads :
          (/\ pol[p].pc = "scan"
           /\ Exists(CurDir(p), MessageFile)
           /\ pol'[p] # pol[p])
          => ~Exists(CurDir(p), ArchivedMessageFile(clock))]_vars

\* C38: whether the handling of a directory's signal file succeeded or
\* failed, the Poller goes on to list that same directory, and the listing
\* holds every command file in it.
C38_SignalFailureDoesNotStopListing ==
    [][\A p \in Threads :
          /\ (/\ pol[p].pc = "scan"
              /\ Exists(CurDir(p), MessageFile)
              /\ pol'[p] # pol[p])
             => (pol'[p].pc = "list" /\ pol'[p].di = pol[p].di)
          /\ (pol[p].pc = "list" /\ pol'[p] # pol[p])
             => pol'[p] = AfterFile(p, ListCommandFiles(CurDir(p)))]_vars

\* A Poller is about to handle a command file of a directory whose signal
\* file it displayed and failed to archive in this pass.
C38_Witness ==
    \E p \in Threads :
        /\ pol[p].pc = "file"
        /\ Exists(CurDir(p), MessageFile)
        /\ nDisplay[fs[CurDir(p)][MessageFile].signal] >= 1

\* A Poller is inside the tool function of the command file of id `id` in
\* directory `dir`.
InHandler(dir, id) ==
    \E p \in Threads :
        /\ pol[p].pc = "host"
        /\ CurDir(p) = dir
        /\ CurId(p) = id

\* C33: a step of stop_server changes no Poller and no file; and a handler
\* invocation that is in progress while stop_server is under way (the flag
\* is cleared, the host's thread is in join) runs to completion: the response
\* file and the tombstone of its id are written.
C33_StopDoesNotCancelInFlight ==
    /\ [][(hostPc # hostPc' /\ ~server_running') => (pol' = pol /\ fs' = fs)]_vars
    /\ \A d \in Dirs, i \in Ids :
          (~server_running /\ hostPc = "join" /\ InHandler(d, i))
          ~> (HasResponse(d, i) /\ Exists(d, ProcessedFile(i)))

====
